---- MODULE Spec2Model ----
(***************************************************************************)
(* Model of cleanup-fastmail-rules.py: merging of Fastmail filing rules    *)
(* that file mail into the same folder by sender address only.             *)
(*                                                                         *)
(* Text is modelled as a sequence of one-character strings, so that the    *)
(* splitting, trimming, pattern matching and joining of the search         *)
(* expression are computed character by character as the code does.        *)
(* A JSON value is a tagged record: Text(s) or Null.  A rule is a function *)
(* from the field names it has to JSON values (a Python dict).             *)
(***************************************************************************)
EXTENDS Integers, Sequences, FiniteSets, TLC

VARIABLES rules, pc, target, out, out2

vars == <<rules, pc, target, out, out2>>

----------------------------------------------------------------------------
(* Bounds of the model *)

MaxRules == 4

----------------------------------------------------------------------------
(* JSON values and text *)

Null == [t |-> "null", v |-> <<>>]

Text(s) == [t |-> "str", v |-> s]

\* Python truthiness of a value that is None or a str
Truthy(x) == x.t = "str" /\ x.v # <<>>

\* characters str.strip() removes and \s matches
Whitespace == {" ", "\t", "\n"}

\* code points of the characters used in folder names, for sorted()
Ord == ("A" :> 65) @@ ("B" :> 66) @@ ("a" :> 97)

FromPrefix == <<"f", "r", "o", "m", ":">>

OrSep == <<" ", "O", "R", " ">>

\* s[i:] of Python with i counted from 0
DropFirst(s, n) == SubSeq(s, n + 1, Len(s))

StartsWith(s, p) == Len(s) >= Len(p) /\ SubSeq(s, 1, Len(p)) = p

\* str.split(sep): cut at every occurrence of sep, scanning left to right
RECURSIVE Split(_, _)
Split(s, sep) ==
    LET hits == {i \in 1..(Len(s) - Len(sep) + 1) : SubSeq(s, i, i + Len(sep) - 1) = sep}
    IN  IF hits = {} THEN <<s>>
        ELSE LET i == CHOOSE k \in hits : \A m \in hits : k <= m
             IN  <<SubSeq(s, 1, i - 1)>> \o Split(DropFirst(s, i + Len(sep) - 1), sep)

\* str.strip(): drop leading and trailing whitespace
RECURSIVE LStrip(_)
LStrip(s) == IF s # <<>> /\ Head(s) \in Whitespace THEN LStrip(Tail(s)) ELSE s

RECURSIVE RStrip(_)
RStrip(s) ==
    IF s # <<>> /\ s[Len(s)] \in Whitespace THEN RStrip(SubSeq(s, 1, Len(s) - 1)) ELSE s

Strip(s) == RStrip(LStrip(s))

\* [t.strip() for t in search.split(' OR ')]
Terms(search) == LET parts == Split(search, OrSep)
                 IN  [i \in 1..Len(parts) |-> Strip(parts[i])]

\* re.match(r'^from:[^\s]+$', term): '$' also matches before a final newline
MatchFrom(term) ==
    /\ StartsWith(term, FromPrefix)
    /\ LET rest == DropFirst(term, 5)
           body == IF rest # <<>> /\ rest[Len(rest)] = "\n"
                   THEN SubSeq(rest, 1, Len(rest) - 1) ELSE rest
           NoSpace(b) == b # <<>> /\ \A i \in 1..Len(b) : b[i] \notin Whitespace
       IN  NoSpace(rest) \/ NoSpace(body)

\* ' OR '.join(f'from:{email}' for email in emails)
RECURSIVE JoinFrom(_)
JoinFrom(emails) ==
    IF emails = <<>> THEN <<>>
    ELSE IF Len(emails) = 1 THEN FromPrefix \o emails[1]
    ELSE FromPrefix \o emails[1] \o OrSep \o JoinFrom(Tail(emails))

\* a deduplication that keeps the last occurrence of each element instead
RECURSIVE UniqueKeepingLast(_)
UniqueKeepingLast(xs) ==
    IF xs = <<>> THEN <<>>
    ELSE LET back == UniqueKeepingLast(Tail(xs))
         IN  IF \E i \in 1..Len(back) : back[i] = Head(xs) THEN back
             ELSE <<Head(xs)>> \o back

\* list(dict.fromkeys(xs)): keep the first occurrence of each element
RECURSIVE Unique(_)
Unique(xs) ==
    IF xs = <<>> THEN <<>>
    ELSE LET front == Unique(SubSeq(xs, 1, Len(xs) - 1))
             last == xs[Len(xs)]
         IN  IF \E i \in 1..Len(front) : front[i] = last THEN front
             ELSE Append(front, last)

----------------------------------------------------------------------------
(* Rules *)

\* dict.get(key)
Get(rule, key) == IF key \in DOMAIN rule THEN rule[key] ELSE Null

\* is_from_rule with any() in place of all()
is_from_rule_any(rule) ==
    LET search == Get(rule, "search")
    IN  IF ~Truthy(search) THEN FALSE
        ELSE LET terms == Terms(search.v)
             IN  \E i \in 1..Len(terms) : MatchFrom(terms[i])

is_from_rule(rule) ==
    LET search == Get(rule, "search")
    IN  IF ~Truthy(search) THEN FALSE
        ELSE LET terms == Terms(search.v)
             IN  \A i \in 1..Len(terms) : MatchFrom(terms[i])

extract_emails(search) ==
    LET terms == Terms(search)
    IN  [i \in 1..Len(terms) |-> DropFirst(terms[i], 5)]

\* the condition of the partition loop of combine_rules_for_folder
IsCandidate(rule, target_folder) ==
    Get(rule, "fileIn") = target_folder /\ is_from_rule(rule)

\* to_combine after the partition loop
to_combine(rs, target_folder) ==
    LET Cand(r) == IsCandidate(r, target_folder) IN SelectSeq(rs, Cand)

\* a partition loop that appends every rule to other_rules
other_rules_all(rs, target_folder) == rs

\* other_rules after the partition loop
other_rules(rs, target_folder) ==
    LET Other(r) == ~IsCandidate(r, target_folder) IN SelectSeq(rs, Other)

\* an early return only when there are two candidates or fewer
TooFewAtTwo(candidates) == Len(candidates) <= 2

\* an early return only when there is no candidate
TooFewAtNone(candidates) == Len(candidates) < 1

\* len(to_combine) <= 1
TooFew(candidates) == Len(candidates) <= 1

\* an early return of the two partitions instead of the list as given
UnmergedPartitions(rs, candidates, others) == candidates \o others

\* return rules
Unmerged(rs, candidates, others) == rs

\* the template taken from the last matching rule
template_last(candidates) == candidates[Len(candidates)]

\* template_rule = to_combine[0].copy()
template_rule(candidates) == candidates[1]

\* all_emails after the loop over to_combine
RECURSIVE all_emails(_)
all_emails(candidates) ==
    IF candidates = <<>> THEN <<>>
    ELSE extract_emails(Head(candidates)["search"].v) \o all_emails(Tail(candidates))

unique_emails(candidates) == Unique(all_emails(candidates))

\* a return of the combined rule without the other rules
CombinedAlone(combined, others) == <<combined>>

\* a return of the combined rule after the other rules
CombinedLast(combined, others) == Append(others, combined)

\* return [template_rule] + other_rules
CombinedFirst(combined, others) == <<combined>> \o others

combine_rules_for_folder(rs, target_folder) ==
    LET candidates == to_combine(rs, target_folder)
        others == other_rules(rs, target_folder)
    IN  IF TooFew(candidates) THEN Unmerged(rs, candidates, others)
        ELSE LET combined ==
                     [template_rule(candidates) EXCEPT
                         !["search"] = Text(JoinFrom(unique_emails(candidates)))]
             IN  CombinedFirst(combined, others)

\* folders collected by the first loop of combine_all_folders
FoldersOf(rs) ==
    {rs[i]["fileIn"].v : i \in {j \in 1..Len(rs) :
                                   Truthy(Get(rs[j], "fileIn")) /\ is_from_rule(rs[j])}}

\* str comparison: lexicographic by code point
RECURSIVE StrLess(_, _)
StrLess(a, b) ==
    IF b = <<>> THEN FALSE
    ELSE IF a = <<>> THEN TRUE
    ELSE IF Head(a) # Head(b) THEN Ord[Head(a)] < Ord[Head(b)]
    ELSE StrLess(Tail(a), Tail(b))

\* sorted(folders, reverse=True)
RECURSIVE SortedDescending(_)
SortedDescending(S) ==
    IF S = {} THEN <<>>
    ELSE LET m == CHOOSE x \in S : \A y \in S \ {x} : StrLess(y, x)
         IN  <<m>> \o SortedDescending(S \ {m})

\* sorted(folders)
RECURSIVE Sorted(_)
Sorted(S) ==
    IF S = {} THEN <<>>
    ELSE LET m == CHOOSE x \in S : \A y \in S \ {x} : StrLess(x, y)
         IN  <<m>> \o Sorted(S \ {m})

RECURSIVE CombineEach(_, _)
CombineEach(result, folders) ==
    IF folders = <<>> THEN result
    ELSE CombineEach(combine_rules_for_folder(result, Text(Head(folders))), Tail(folders))

combine_all_folders(rs) == CombineEach(rs, Sorted(FoldersOf(rs)))

----------------------------------------------------------------------------
(* Inputs: rule lists of at most MaxRules rules drawn from RuleUniverse *)

AddrA == <<"a">>
AddrB == <<"b">>
FolderAa == <<"A", "a">>
FolderB == <<"B">>

NameX == Text(<<"x">>)
NameY == Text(<<"y">>)

SubjectHello == <<"s", "u", "b", "j", "e", "c", "t", ":", "h", "e", "l", "l", "o">>

FromA == FromPrefix \o AddrA
FromB == FromPrefix \o AddrB

\* "from:b  OR \tfrom:b\n": untrimmed terms and an address repeated in one search
FromBTwice == FromB \o <<" ">> \o OrSep \o <<"\t">> \o FromB \o <<"\n">>

\* rules that file into a folder by sender address only
SenderRules ==
    { [search |-> Text(FromA), fileIn |-> Text(FolderAa), name |-> NameX],
      [search |-> Text(FromB \o OrSep \o FromA), fileIn |-> Text(FolderAa), name |-> NameY],
      [search |-> Text(FromA), fileIn |-> Text(FolderB), name |-> NameY],
      [search |-> Text(FromBTwice), fileIn |-> Text(FolderB), name |-> NameX] }

\* rules with another kind of term in the search, or with no fileIn
PlainOthers ==
    { [search |-> Text(SubjectHello), fileIn |-> Text(FolderAa), name |-> NameX],
      [fileIn |-> Text(FolderB), name |-> NameX],
      [search |-> Text(FromB), name |-> NameX] }

\* further rules with a missing, null or empty search or fileIn, or a mixed search
MoreOthers ==
    { [search |-> Text(FromA \o OrSep \o SubjectHello), fileIn |-> Text(FolderAa), name |-> NameY],
      [search |-> Null, fileIn |-> Text(FolderB), name |-> NameY],
      [search |-> Text(<<>>), fileIn |-> Text(FolderAa), name |-> NameX],
      [search |-> Text(FromB), fileIn |-> Null, name |-> NameY],
      [search |-> Text(FromA), fileIn |-> Text(<<>>), name |-> NameY] }

CoreRules == SenderRules \cup PlainOthers

RuleUniverse == CoreRules \cup MoreOthers

ListsUpTo(S, n) == UNION {[1..k -> S] : k \in 0..n}

\* up to MaxRules rules of CoreRules, or one rule fewer of the whole universe
InputRules == ListsUpTo(CoreRules, MaxRules) \cup ListsUpTo(RuleUniverse, MaxRules - 1)

Targets == {Text(FolderAa), Text(FolderB)}

----------------------------------------------------------------------------
(* State machine *)

Init ==
    /\ rules \in InputRules
    /\ pc = "input"
    /\ target = Null
    /\ out = <<>>
    /\ out2 = <<>>

\* main(): new_rules = combine_all_folders(rules)
CombineAll ==
    /\ pc = "input"
    /\ out' = combine_all_folders(rules)
    /\ pc' = "all"
    /\ UNCHANGED <<rules, target, out2>>

\* the program run again on its own output
CombineAgain ==
    /\ pc = "all"
    /\ out2' = combine_all_folders(out)
    /\ pc' = "again"
    /\ UNCHANGED <<rules, target, out>>

\* combine_rules_for_folder(rules, target_folder) called on the input
CombineFolder ==
    /\ pc = "input"
    /\ \E t \in Targets :
          /\ target' = t
          /\ out' = combine_rules_for_folder(rules, t)
    /\ pc' = "folder"
    /\ UNCHANGED <<rules, out2>>

Next == CombineAll \/ CombineAgain \/ CombineFolder

Spec == Init /\ [][Next]_vars

----------------------------------------------------------------------------
(* Vocabulary of the properties *)

\* the rules of rs that qualify for folder f, in their order in rs
CandidatesOf(rs, f) == LET Cand(r) == IsCandidate(r, Text(f)) IN SelectSeq(rs, Cand)

\* the rules of rs that do not qualify for folder f, in their order in rs
OthersOf(rs, f) == LET Other(r) == ~IsCandidate(r, Text(f)) IN SelectSeq(rs, Other)

\* the non-empty folder names with two or more candidates in rs
MergedFolders(rs) == {f \in FoldersOf(rs) : Len(CandidatesOf(rs, f)) >= 2}

\* r is a candidate of one of the folders M
AbsorbedBy(r, M) == \E f \in M : IsCandidate(r, Text(f))

\* r is a candidate of a folder of rs that had two or more candidates
Absorbed(r, rs) == AbsorbedBy(r, MergedFolders(rs))

\* the rules of rs that no merge absorbs, in their order in rs
PassThrough(rs) ==
    LET M == MergedFolders(rs)
        Kept(r) == ~AbsorbedBy(r, M)
    IN  SelectSeq(rs, Kept)

\* positions of rs holding a pure sender-match rule that files into folder f
SenderPositions(rs, f) == {j \in 1..Len(rs) : IsCandidate(rs[j], Text(f))}

\* the addresses of a rule's search, as a set
AddressSet(r) == LET es == extract_emails(r["search"].v) IN {es[i] : i \in 1..Len(es)}

\* the addresses of the candidates of folder f, candidate by candidate, in order
AddressList(rs, f) == all_emails(CandidatesOf(rs, f))

\* position of the first occurrence of x in xs
FirstIndex(xs, x) == CHOOSE i \in 1..Len(xs) : xs[i] = x /\ \A j \in 1..(i - 1) : xs[j] # x

\* rs without the positions in drop
RECURSIVE Without(_, _, _)
Without(rs, drop, i) ==
    IF i > Len(rs) THEN <<>>
    ELSE IF i \in drop THEN Without(rs, drop, i + 1)
    ELSE <<rs[i]>> \o Without(rs, drop, i + 1)

\* a rule that does not qualify for any folder
NonCandidate(r) ==
    \/ ~Truthy(Get(r, "search"))
    \/ ~Truthy(Get(r, "fileIn"))
    \/ LET terms == Terms(r["search"].v)
       IN  \E i \in 1..Len(terms) : ~MatchFrom(terms[i])

\* number of positions of rs holding the rule r
Occurrences(rs, r) == Cardinality({j \in 1..Len(rs) : rs[j] = r})

FolderCall == pc = "folder"
AllDone == pc = "all"
TargetCandidates == CandidatesOf(rules, target.v)

----------------------------------------------------------------------------
(* Properties *)

\* C1: combine_all_folders accounts for every input rule exactly once: the
\* output holds one merged rule per folder that had two or more candidates and,
\* besides these, exactly the rules no merge absorbed, each once and identical;
\* the addresses of an absorbed rule are all in the one merged rule of its folder.
C1_Completeness ==
    AllDone =>
        LET M == MergedFolders(rules)
            mergedAt == UNION {SenderPositions(out, f) : f \in M}
        IN  /\ \A f \in M : Cardinality(SenderPositions(out, f)) = 1
            /\ Without(out, mergedAt, 1) = PassThrough(rules)
            /\ \A i \in 1..Len(rules) :
                  AbsorbedBy(rules[i], M) =>
                      \A j \in SenderPositions(out, rules[i]["fileIn"].v) :
                          AddressSet(rules[i]) \subseteq AddressSet(out[j])

C1_Witness ==
    /\ pc = "all"
    /\ MergedFolders(rules) # {}
    /\ PassThrough(rules) # <<>>
    /\ \E i, j \in 1..Len(rules) : i < j /\ rules[i] = rules[j] /\ ~Absorbed(rules[i], rules)

\* C2: after combine_all_folders every non-empty folder name has at most one
\* pure sender-match rule filing into it.
C2_OneSenderRulePerFolder ==
    AllDone =>
        \A j \in 1..Len(out) :
            Truthy(Get(out[j], "fileIn")) =>
                Cardinality(SenderPositions(out, out[j]["fileIn"].v)) <= 1

C2_Witness ==
    /\ pc = "all"
    /\ \E f \in MergedFolders(rules) : Len(CandidatesOf(rules, f)) >= 3

\* C3: the search of a merged rule lists every address of the candidates'
\* searches exactly once, in the order of first occurrence over the candidates
\* in input order and the addresses of each candidate in their order.
C3_AddressesUniqueInFirstOccurrenceOrder ==
    (FolderCall /\ Len(TargetCandidates) >= 2) =>
        LET merged == extract_emails(out[1]["search"].v)
            all == AddressList(rules, target.v)
        IN  /\ \A p, q \in 1..Len(merged) : p # q => merged[p] # merged[q]
            /\ {merged[p] : p \in 1..Len(merged)} = {all[i] : i \in 1..Len(all)}
            /\ \A p, q \in 1..Len(merged) :
                  p < q => FirstIndex(all, merged[p]) < FirstIndex(all, merged[q])

C3_Witness ==
    /\ FolderCall
    /\ Len(TargetCandidates) >= 2
    /\ LET all == AddressList(rules, target.v)
       IN  /\ \E i, j \in 1..Len(all) : i < j /\ all[i] = all[j]
           /\ Len(extract_emails(out[1]["search"].v)) >= 2
           /\ all[1] = AddrB

\* C4: combine_all_folders applied to its own output returns that output.
C4_Idempotent == pc = "again" => out2 = out

C4_Witness ==
    /\ pc = "again"
    /\ out # rules
    /\ Cardinality(MergedFolders(rules)) >= 2

\* C5: a rule whose search or fileIn is absent, null or empty, or whose search
\* has a term that is not a from: term, is in the output of combine_all_folders
\* as often as in the input, and the merged rules hold only addresses of the
\* candidates of their folder.
C5_NonCandidatesPassThrough ==
    AllDone =>
        /\ \A i \in 1..Len(rules) :
              NonCandidate(rules[i]) => Occurrences(out, rules[i]) = Occurrences(rules, rules[i])
        /\ \A f \in MergedFolders(rules) :
              \A j \in SenderPositions(out, f) :
                  AddressSet(out[j]) =
                      LET all == AddressList(rules, f) IN {all[i] : i \in 1..Len(all)}

C5_Witness ==
    /\ pc = "all"
    /\ MergedFolders(rules) = {FolderAa}
    /\ \E i, j \in 1..Len(rules) :
          /\ i # j
          /\ Get(rules[i], "fileIn") = Text(FolderAa)
          /\ Get(rules[j], "fileIn") = Text(FolderAa)
          /\ Get(rules[i], "search") = Text(SubjectHello)
          /\ Get(rules[j], "search") = Text(SubjectHello)

\* C6: with at most one candidate for the target folder,
\* combine_rules_for_folder returns the input list as it is.
C6_NonMergeFloor == (FolderCall /\ Len(TargetCandidates) <= 1) => out = rules

C6_Witness ==
    /\ FolderCall
    /\ Len(TargetCandidates) = 1
    /\ Len(rules) >= 2
    /\ ~IsCandidate(rules[1], target)

\* C7: when no folder has two or more candidates, combine_all_folders returns
\* the input list as it is.
C7_NothingToMerge == (AllDone /\ MergedFolders(rules) = {}) => out = rules

C7_Witness ==
    /\ pc = "all"
    /\ MergedFolders(rules) = {}
    /\ Cardinality(FoldersOf(rules)) = 2
    /\ StrLess(rules[1]["fileIn"].v, rules[Len(rules)]["fileIn"].v)

\* C8: with two or more candidates, combine_rules_for_folder returns the merged
\* rule first and then the non-candidates in their original order.
C8_MergedFirstThenOthers ==
    (FolderCall /\ Len(TargetCandidates) >= 2) =>
        /\ IsCandidate(out[1], target)
        /\ Tail(out) = OthersOf(rules, target.v)
        /\ Len(out) = Len(rules) - Len(TargetCandidates) + 1

C8_Witness ==
    /\ FolderCall
    /\ Len(TargetCandidates) >= 2
    /\ ~IsCandidate(rules[1], target)
    /\ ~IsCandidate(rules[2], target)
    /\ rules[1] # rules[2]

\* C9: the output of combine_all_folders is the merged rules, one per folder
\* that had two or more candidates, in descending order of folder name, and
\* then the rules no merge absorbed in their input order.
C9_MergedInDescendingFolderOrder ==
    AllDone =>
        LET k == Cardinality(MergedFolders(rules))
        IN  /\ Len(out) >= k
            /\ {out[j]["fileIn"].v : j \in 1..k} = MergedFolders(rules)
            /\ \A j \in 1..k : is_from_rule(out[j])
            /\ \A p, q \in 1..k : p < q => StrLess(out[q]["fileIn"].v, out[p]["fileIn"].v)
            /\ SubSeq(out, k + 1, Len(out)) = PassThrough(rules)

C9_Witness ==
    /\ pc = "all"
    /\ MergedFolders(rules) = {FolderAa, FolderB}
    /\ Get(rules[1], "fileIn") = Text(FolderAa)

\* C10: the merged rule has the fields of the first candidate in input order,
\* with (only) the search replaced by a sender expression.
C10_TemplateIsFirstCandidate ==
    (FolderCall /\ Len(TargetCandidates) >= 2) =>
        LET first == TargetCandidates[1]
        IN  /\ DOMAIN out[1] = DOMAIN first
            /\ \A k \in DOMAIN first \ {"search"} : out[1][k] = first[k]
            /\ is_from_rule(out[1])

C10_Witness ==
    /\ FolderCall
    /\ Len(TargetCandidates) >= 2
    /\ TargetCandidates[1]["name"] # TargetCandidates[Len(TargetCandidates)]["name"]
    /\ out[1]["search"] # TargetCandidates[1]["search"]

====
